---------------------------- MODULE Spec2Model ----------------------------
(***************************************************************************)
(* A model of freeimage.py, the ctypes bridge between FreeImage bitmaps    *)
(* and numpy arrays: the pixel-type registry, the strided view over the    *)
(* decoder's pixel memory, the channel reordering, the metadata iteration  *)
(* and the handle / session / cursor protocol of the six public            *)
(* operations.  The FreeImage library is the environment: each of its      *)
(* results is a nondeterministic choice, and every resource call made on   *)
(* it is appended to the history variable calls.                           *)
(***************************************************************************)
EXTENDS Integers, Sequences, FiniteSets, TLC

(***************************************************************************)
(* Bounds of the model.                                                    *)
(***************************************************************************)
MaxW == 2
MaxH == 2
MaxSeed == 1
MaxPad == 1
MaxPages == 2
MaxTags == 2
MaxPageTags == 1
MaxFaults == 1

Null == [null |-> TRUE]
NoError == <<>>

(***************************************************************************)
(* numpy dtypes: the registered ones and two the write table lacks.        *)
(***************************************************************************)
DTypes ==
  {"uint8", "uint16", "int16", "uint32", "int32", "float32", "float64",
   "complex128", "int8", "uint64"}

ItemSize(dtype) ==
  CASE dtype \in {"uint8", "int8"} -> 1
    [] dtype \in {"uint16", "int16"} -> 2
    [] dtype \in {"uint32", "int32", "float32"} -> 4
    [] dtype \in {"float64", "uint64"} -> 8
    [] dtype = "complex128" -> 16

(***************************************************************************)
(* class FI_TYPES                                                          *)
(***************************************************************************)
FIT_UNKNOWN == 0
FIT_BITMAP == 1
FIT_UINT16 == 2
FIT_INT16 == 3
FIT_UINT32 == 4
FIT_INT32 == 5
FIT_FLOAT == 6
FIT_DOUBLE == 7
FIT_COMPLEX == 8
FIT_RGB16 == 9
FIT_RGBA16 == 10
FIT_RGBF == 11
FIT_RGBAF == 12

FI_dtypes ==
  (FIT_BITMAP :> "uint8") @@ (FIT_UINT16 :> "uint16") @@ (FIT_INT16 :> "int16")
  @@ (FIT_UINT32 :> "uint32") @@ (FIT_INT32 :> "int32")
  @@ (FIT_FLOAT :> "float32") @@ (FIT_DOUBLE :> "float64")
  @@ (FIT_COMPLEX :> "complex128") @@ (FIT_RGB16 :> "uint16")
  @@ (FIT_RGBA16 :> "uint16") @@ (FIT_RGBF :> "float32")
  @@ (FIT_RGBAF :> "float32")

\* mutant: the two 16-bit colour types exchanged
FI_fi_types_Exchanged ==
  (<<"uint8", 1>> :> FIT_BITMAP) @@ (<<"uint8", 3>> :> FIT_BITMAP)
  @@ (<<"uint8", 4>> :> FIT_BITMAP) @@ (<<"uint16", 1>> :> FIT_UINT16)
  @@ (<<"int16", 1>> :> FIT_INT16) @@ (<<"uint32", 1>> :> FIT_UINT32)
  @@ (<<"int32", 1>> :> FIT_INT32) @@ (<<"float32", 1>> :> FIT_FLOAT)
  @@ (<<"float64", 1>> :> FIT_DOUBLE) @@ (<<"complex128", 1>> :> FIT_COMPLEX)
  @@ (<<"uint16", 3>> :> FIT_RGBA16) @@ (<<"uint16", 4>> :> FIT_RGB16)
  @@ (<<"float32", 3>> :> FIT_RGBF) @@ (<<"float32", 4>> :> FIT_RGBAF)

FI_fi_types ==
  (<<"uint8", 1>> :> FIT_BITMAP) @@ (<<"uint8", 3>> :> FIT_BITMAP)
  @@ (<<"uint8", 4>> :> FIT_BITMAP) @@ (<<"uint16", 1>> :> FIT_UINT16)
  @@ (<<"int16", 1>> :> FIT_INT16) @@ (<<"uint32", 1>> :> FIT_UINT32)
  @@ (<<"int32", 1>> :> FIT_INT32) @@ (<<"float32", 1>> :> FIT_FLOAT)
  @@ (<<"float64", 1>> :> FIT_DOUBLE) @@ (<<"complex128", 1>> :> FIT_COMPLEX)
  @@ (<<"uint16", 3>> :> FIT_RGB16) @@ (<<"uint16", 4>> :> FIT_RGBA16)
  @@ (<<"float32", 3>> :> FIT_RGBF) @@ (<<"float32", 4>> :> FIT_RGBAF)

FI_extra_dims ==
  (FIT_UINT16 :> <<>>) @@ (FIT_INT16 :> <<>>) @@ (FIT_UINT32 :> <<>>)
  @@ (FIT_INT32 :> <<>>) @@ (FIT_FLOAT :> <<>>) @@ (FIT_DOUBLE :> <<>>)
  @@ (FIT_COMPLEX :> <<>>) @@ (FIT_RGB16 :> <<3>>) @@ (FIT_RGBA16 :> <<4>>)
  @@ (FIT_RGBF :> <<3>>) @@ (FIT_RGBAF :> <<4>>)

(***************************************************************************)
(* A bitmap handle is a record [id, fi_type, bpp, width, height, pitch];   *)
(* its pixel memory is a function from the byte offset of each stored      *)
(* element to the element.                                                 *)
(***************************************************************************)
Raise(type, msg) == [ok |-> FALSE, err |-> <<type, msg>>]

\* FI_TYPES.get_type_and_shape
get_type_and_shape(b) ==
  IF b.fi_type = FIT_UNKNOWN
    THEN Raise("ValueError", "Unknown image pixel type")
  ELSE IF b.fi_type \notin DOMAIN FI_dtypes
    THEN Raise("KeyError", "fi_type")
  ELSE IF b.fi_type = FIT_BITMAP /\ b.bpp \notin {8, 24, 32}
    THEN Raise("ValueError", "Cannot convert BPP bitmap")
  ELSE [ok |-> TRUE,
        dtype |-> FI_dtypes[b.fi_type],
        shape |-> <<b.width, b.height>> \o
                  (IF b.fi_type = FIT_BITMAP
                     THEN (CASE b.bpp = 8 -> <<>>
                             [] b.bpp = 24 -> <<3>>
                             [] b.bpp = 32 -> <<4>>)
                     ELSE FI_extra_dims[b.fi_type])]


(***************************************************************************)
(* numpy arrays and strided views.  An index is a tuple of 0-based         *)
(* coordinates; an array is [dtype, shape, data] with data a function of   *)
(* the indices of shape.  A view is the ndarray built over a ctypes        *)
(* buffer: [shape, strides, offset, itemsize, byte_size], in bytes.        *)
(***************************************************************************)
RECURSIVE MaxOf(_)
MaxOf(s) == IF s = <<>> THEN 0
            ELSE LET m == MaxOf(Tail(s)) IN IF Head(s) > m THEN Head(s) ELSE m

Indices(shape) ==
  {i \in [1..Len(shape) -> 0..(MaxOf(shape) - 1)] :
     \A k \in 1..Len(shape) : i[k] < shape[k]}

RECURSIVE Dot(_, _)
Dot(i, strides) ==
  IF i = <<>> THEN 0 ELSE Head(i) * Head(strides) + Dot(Tail(i), Tail(strides))

\* the byte offset, from the buffer's base, that numpy reads for view[i]
ElemAddr(view, i) == view.offset + Dot(i, view.strides)

\* memory outside the decoder's allocation holds no element
Garbage == 0 - 1
Peek(bits, a) == IF a \in DOMAIN bits THEN bits[a] ELSE Garbage

\* view[i] = val[i] for every i of is (a numpy slice assignment)
ViewStore(bits, view, is, val) ==
  LET hit(a) == {i \in is : ElemAddr(view, i) = a}
      touched == {ElemAddr(view, i) : i \in is}
  IN [a \in DOMAIN bits \cup touched |->
        IF hit(a) # {} THEN val[CHOOSE i \in hit(a) : TRUE] ELSE bits[a]]

\* mutant: the view started one row too far
_wrap_bitmap_bits_in_array_OffByOne(b, shape, dtype) ==
  [shape |-> shape,
   itemsize |-> ItemSize(dtype),
   byte_size |-> shape[2] * b.pitch,
   strides |-> IF Len(shape) = 3
                 THEN <<shape[3] * ItemSize(dtype), 0 - b.pitch, ItemSize(dtype)>>
                 ELSE <<ItemSize(dtype), 0 - b.pitch>>,
   offset |-> b.pitch * shape[2]]

\* _wrap_bitmap_bits_in_array
_wrap_bitmap_bits_in_array(b, shape, dtype) ==
  LET pitch == b.pitch
      height == shape[2]
      itemsize == ItemSize(dtype)
  IN [shape |-> shape,
      itemsize |-> itemsize,
      byte_size |-> height * pitch,
      strides |-> IF Len(shape) = 3
                    THEN <<shape[3] * itemsize, -pitch, itemsize>>
                    ELSE <<itemsize, -pitch>>,
      offset |-> pitch * (height - 1)]

\* the indices of one channel of a (width, height, nchannels) shape
Channel(shape, c) == {i \in Indices(shape) : i[3] = c}
WithChannel(i, c) == <<i[1], i[2], c>>

\* mutant: the swap made whatever the byte order of the host
NeedsSwap_Always(shape, dtype, le) == Len(shape) = 3 /\ dtype = "uint8"

\* the swap test shared by _array_from_bitmap and _array_to_bitmap
NeedsSwap(shape, dtype, le) == Len(shape) = 3 /\ le /\ dtype = "uint8"

\* _array_from_bitmap: the pixel memory after the in-place red/blue swap
BitsAfterRead(b, bits, le) ==
  LET r == get_type_and_shape(b)
      view == _wrap_bitmap_bits_in_array(b, r.shape, r.dtype)
      saved == [i \in Channel(r.shape, 0) |-> Peek(bits, ElemAddr(view, i))]
      step1 == ViewStore(bits, view, Channel(r.shape, 0),
                 [i \in Channel(r.shape, 0) |->
                    Peek(bits, ElemAddr(view, WithChannel(i, 2)))])
      step2 == ViewStore(step1, view, Channel(r.shape, 2),
                 [i \in Channel(r.shape, 2) |-> saved[WithChannel(i, 0)]])
  IN IF NeedsSwap(r.shape, r.dtype, le) THEN step2 ELSE bits

\* _array_from_bitmap: the owned array returned, or the error raised
_array_from_bitmap(b, bits, le) ==
  LET r == get_type_and_shape(b)
      view == _wrap_bitmap_bits_in_array(b, r.shape, r.dtype)
      after == BitsAfterRead(b, bits, le)
  IN IF ~r.ok THEN r
     ELSE [ok |-> TRUE,
           value |-> [dtype |-> r.dtype,
                      shape |-> r.shape,
                      data |-> [i \in Indices(r.shape) |->
                                  Peek(after, ElemAddr(view, i))]]]


\* mutant: the array copied in plainly whatever the byte order
CopyIn_Plain(b, bits, array, le) ==
  [ok |-> TRUE,
   bits |-> ViewStore(bits,
              [shape |-> array.shape,
               itemsize |-> ItemSize(array.dtype),
               byte_size |-> array.shape[2] * b.pitch,
               strides |-> IF Len(array.shape) = 3
                             THEN <<array.shape[3] * ItemSize(array.dtype),
                                    0 - b.pitch, ItemSize(array.dtype)>>
                             ELSE <<ItemSize(array.dtype), 0 - b.pitch>>,
               offset |-> b.pitch * (array.shape[2] - 1)],
              Indices(array.shape), array.data)]

\* _array_to_bitmap, lines 601-610: the pixel memory after the array is copied
\* in through the view, or the IndexError of array[:, :, 2]
CopyIn(b, bits, array, le) ==
  LET shape == array.shape
      view == _wrap_bitmap_bits_in_array(b, shape, array.dtype)
      from(c) == [j \in Channel(shape, c) |-> array.data[j]]
      to(mem, dst, src) ==
        ViewStore(mem, view, Channel(shape, dst),
                  [j \in Channel(shape, dst) |-> from(src)[WithChannel(j, src)]])
      s0 == to(bits, 0, 2)
      s1 == to(s0, 1, 1)
      s2 == to(s1, 2, 0)
      s3 == IF shape[3] = 4 THEN to(s2, 3, 3) ELSE s2
  IN IF NeedsSwap(shape, array.dtype, le)
       THEN IF shape[3] < 3
              THEN Raise("IndexError", "index 2 is out of bounds for axis 2")
              ELSE [ok |-> TRUE, bits |-> s3]
       ELSE [ok |-> TRUE,
             bits |-> ViewStore(bits, view, Indices(shape), array.data)]

\* numpy.arange(start, stop, step)
arange(start, stop, step) ==
  [k \in 1..((stop - start + step - 1) \div step) |-> start + (k - 1) * step]

\* _GREY_PALETTE: 0x00010101 apart, below 0x01000000
GREY_PALETTE == arange(0, 16777216, 65793)

\* ctypes.memmove(palette, _GREY_PALETTE.ctypes.data, 1024): 32-bit entries
InstallPalette == SubSeq(GREY_PALETTE, 1, 1024 \div 4)

(***************************************************************************)
(* class METADATA_MODELS and class METADATA_DATATYPE.  A decoded element   *)
(* is the tuple of its fields, each field the tuple of its bytes: the      *)
(* layout of a type code is the sequence of its field widths.              *)
(***************************************************************************)
ModelNames ==
  <<"COMMENTS", "EXIF_MAIN", "EXIF_EXIF", "EXIF_GPS", "EXIF_MAKERNOTE",
    "EXIF_INTEROP", "IPTC", "XMP", "GEOTIFF", "ANIMATION">>
NModels == Len(ModelNames)

FIDT_BYTE == 1
FIDT_ASCII == 2
FIDT_SHORT == 3
FIDT_LONG == 4
FIDT_RATIONAL == 5
FIDT_SBYTE == 6
FIDT_UNDEFINED == 7
FIDT_SSHORT == 8
FIDT_SLONG == 9
FIDT_SRATIONAL == 10
FIDT_FLOAT == 11
FIDT_DOUBLE == 12
FIDT_IFD == 13
FIDT_PALETTE == 14
FIDT_LONG8 == 16
FIDT_SLONG8 == 17
FIDT_IFD8 == 18

MD_dtypes ==
  (FIDT_BYTE :> <<1>>) @@ (FIDT_SHORT :> <<2>>) @@ (FIDT_LONG :> <<4>>)
  @@ (FIDT_RATIONAL :> <<4, 4>>) @@ (FIDT_SBYTE :> <<1>>)
  @@ (FIDT_UNDEFINED :> <<1>>) @@ (FIDT_SSHORT :> <<2>>)
  @@ (FIDT_SLONG :> <<4>>) @@ (FIDT_SRATIONAL :> <<4, 4>>)
  @@ (FIDT_FLOAT :> <<4>>) @@ (FIDT_DOUBLE :> <<8>>) @@ (FIDT_IFD :> <<4>>)
  @@ (FIDT_PALETTE :> <<1, 1, 1, 1>>) @@ (FIDT_LONG8 :> <<8>>)
  @@ (FIDT_SLONG8 :> <<8>>) @@ (FIDT_IFD8 :> <<8>>)

RECURSIVE Sum(_)
Sum(s) == IF s = <<>> THEN 0 ELSE Head(s) + Sum(Tail(s))

\* dtype.itemsize of a registered layout
ElemWidth(layout) == Sum(layout)

\* one element cut out of the payload, field by field
RECURSIVE Fields(_, _)
Fields(bytes, layout) ==
  IF layout = <<>> THEN <<>>
  ELSE <<SubSeq(bytes, 1, Head(layout))>>
       \o Fields(SubSeq(bytes, Head(layout) + 1, Len(bytes)), Tail(layout))

\* numpy.fromstring(tag_str, dtype): the elements of the payload
FromString(bytes, layout) ==
  LET w == ElemWidth(layout)
  IN [k \in 1..(Len(bytes) \div w) |->
        Fields(SubSeq(bytes, (k - 1) * w + 1, k * w), layout)]

\* ctypes' c_char array .value: the bytes before the first NUL
RECURSIVE CString(_)
CString(bytes) ==
  IF bytes = <<>> \/ Head(bytes) = 0 THEN <<>>
  ELSE <<Head(bytes)>> \o CString(Tail(bytes))

\* mutant: a single element is left as a one-element sequence
DecodeTag_NoCollapse(tag) ==
  IF tag.type = FIDT_ASCII
    THEN [ok |-> TRUE, value |-> [text |-> CString(tag.bytes)]]
  ELSE IF tag.type \notin DOMAIN MD_dtypes
    THEN Raise("KeyError", "tag_type")
  ELSE IF Len(tag.bytes) % ElemWidth(MD_dtypes[tag.type]) # 0
    THEN Raise("ValueError", "string size must be a multiple of element size")
  ELSE LET tag_val == FromString(tag.bytes, MD_dtypes[tag.type])
       IN [ok |-> TRUE,
           value |-> [array |-> tag_val]]

\* the body of the tag loop of _read_metadata, up to the value decoded
DecodeTag(tag) ==
  IF tag.type = FIDT_ASCII
    THEN [ok |-> TRUE, value |-> [text |-> CString(tag.bytes)]]
  ELSE IF tag.type \notin DOMAIN MD_dtypes
    THEN Raise("KeyError", "tag_type")
  ELSE IF Len(tag.bytes) % ElemWidth(MD_dtypes[tag.type]) # 0
    THEN Raise("ValueError", "string size must be a multiple of element size")
  ELSE LET tag_val == FromString(tag.bytes, MD_dtypes[tag.type])
       IN [ok |-> TRUE,
           value |-> IF Len(tag_val) = 1 THEN [scalar |-> tag_val[1]]
                     ELSE [array |-> tag_val]]


(***************************************************************************)
(* What the decoder can hand out.  A loadable bitmap has a pixel type and  *)
(* depth (the registered ones, the unknown type 0, a type above the        *)
(* registry, and generic bitmaps of 1 and 16 bits per pixel), a size, a    *)
(* row pitch of the line's bytes plus padding, and pixel memory whose      *)
(* elements are pairwise different.                                        *)
(***************************************************************************)
FIT_ABOVE == FIT_RGBAF + 1

NChannelsOf(t) == IF t \in DOMAIN FI_extra_dims /\ FI_extra_dims[t] # <<>>
                    THEN FI_extra_dims[t][1] ELSE 1

PixelKinds ==
  {<<FIT_UNKNOWN, 8>>, <<FIT_ABOVE, 8>>}
  \cup {<<FIT_BITMAP, d>> : d \in {1, 8, 16, 24, 32}}
  \cup {<<t, 8 * ItemSize(FI_dtypes[t]) * NChannelsOf(t)>> :
          t \in DOMAIN FI_extra_dims}

LineBytes(width, bpp) == (width * bpp + 7) \div 8

\* the width in bytes of one stored element of a bitmap
StoredItemSize(b) ==
  IF b.fi_type \in DOMAIN FI_dtypes /\ b.bpp >= 8
    THEN ItemSize(FI_dtypes[b.fi_type]) ELSE 1

\* the byte offsets at which the decoder stores the elements of a bitmap
StoredOffsets(b) ==
  {r * b.pitch + k * StoredItemSize(b) :
     r \in 0..(b.height - 1),
     k \in 0..((LineBytes(b.width, b.bpp) \div StoredItemSize(b)) - 1)}

\* pixel memory holding a different element at every offset
Stored(b, seed) ==
  [a \in StoredOffsets(b) |->
     (seed + 16 * (a \div b.pitch) + ((a % b.pitch) \div StoredItemSize(b))) % 256]

\* FreeImage_AllocateT: zero-filled pixel memory
Blank(b) == [a \in StoredOffsets(b) |-> 0]

Bitmap(id, fi_type, bpp, width, height, pad) ==
  [id |-> id, fi_type |-> fi_type, bpp |-> bpp, width |-> width,
   height |-> height, pitch |-> LineBytes(width, bpp) + pad]

Bitmaps(id) ==
  {Bitmap(id, k[1], k[2], w, h, pad) :
     k \in PixelKinds, w \in 1..MaxW, h \in 1..MaxH, pad \in 0..MaxPad}

\* the pages of a multi-page file: one pixel wide and high
Pages(id) ==
  {Bitmap(id, k[1], k[2], 1, 1, pad) :
     k \in {<<FIT_UNKNOWN, 8>>, <<FIT_BITMAP, 24>>, <<FIT_UINT16, 16>>},
     pad \in {1}}

\* a bitmap loaded with FIF_LOAD_NOPIXELS: a header without pixel memory
Header(id) == Bitmap(id, FIT_BITMAP, 24, 1, 1, 1)
NoBits == <<>>

\* the tags a file can hold
Tags ==
  {[key |-> "Artist", type |-> FIDT_ASCII, bytes |-> <<65, 66, 0>>],
   [key |-> "Orientation", type |-> FIDT_SHORT, bytes |-> <<1, 0>>],
   [key |-> "BitsPerSample", type |-> FIDT_SHORT, bytes |-> <<8, 0, 8, 0>>],
   [key |-> "XResolution", type |-> FIDT_RATIONAL,
    bytes |-> <<72, 0, 0, 0, 1, 0, 0, 0>>],
   [key |-> "Keywords", type |-> FIDT_ASCII, bytes |-> <<65, 0, 66, 0>>],
   [key |-> "Colour", type |-> FIDT_PALETTE, bytes |-> <<1, 2, 3, 4>>],
   [key |-> "NoType", type |-> 0, bytes |-> <<1>>],
   [key |-> "Odd", type |-> FIDT_SHORT, bytes |-> <<1, 0, 2>>]}

(***************************************************************************)
(* The arrays a caller can pass to write.                                  *)
(***************************************************************************)
RECURSIVE Weigh(_)
Weigh(i) == IF i = <<>> THEN 0 ELSE Head(i) + 5 * Weigh(Tail(i))

Array(dtype, shape, seed) ==
  [dtype |-> dtype, shape |-> shape,
   data |-> [i \in Indices(shape) |-> (seed + Weigh(i)) % 256]]

Shapes ==
  {<<w>> : w \in 1..MaxW}
  \cup {<<w, h>> : w \in 1..MaxW, h \in 1..MaxH}
  \cup {<<w, h, c>> : w \in 1..MaxW, h \in 1..MaxH, c \in 1..4}
  \cup {<<w, h, 3, 1>> : w \in 1..MaxW, h \in 1..MaxH}

Arrays == {Array(d, sh, seed) : d \in DTypes, sh \in Shapes, seed \in 0..MaxSeed}

\* the arrays of a multi-page write: one pixel wide and high
PageArrays ==
  {Array(d, sh, 0) : d \in {"uint8", "uint16", "int8"},
                     sh \in {<<1, 1>>, <<1, 1, 1>>, <<1, 1, 3>>}}


(***************************************************************************)
(* The state: one public operation, from its call to its return or raise.  *)
(***************************************************************************)
VARIABLES
  op,            \* the public operation called
  pc,            \* the statement about to run; "returned" or "raised" at the end
  littleEndian,  \* FreeImage_IsLittleEndian()
  input,         \* the array (write) or list of arrays (write_multipage) passed
  bitmap,        \* the bitmap handle in hand, or Null
  bits,          \* the pixel memory of that bitmap
  bits0,         \* what that memory held when the decoder handed it out
  palette,       \* the palette buffer of that bitmap, once written
  fi_type,       \* the pixel-type tag _array_to_bitmap returned
  pages,         \* FreeImage_GetPageCount of the open session
  i,             \* the loop index of _process_multipage / write_multipage
  seen,          \* the bitmaps FreeImage_LockPage returned, in order
  out,           \* the list _process_multipage builds
  number,        \* _read_metadata: the position in the list of models
  tag,           \* _read_metadata: the current tag, or Null
  ntags,         \* the tags the decoder has handed out of this file
  metadata,      \* _read_metadata: the dict built so far
  ret,           \* the value process_func returned
  error,         \* the exception propagating, or NoError
  result,        \* the value the public operation returned
  calls,         \* the resource calls made on the decoder, in order
  callback,      \* the error callback registered with the decoder
  faults         \* the messages the decoder has passed to the callback

vars ==
  <<op, pc, littleEndian, input, bitmap, bits, bits0, palette, fi_type, pages,
    i, seen, out, number, tag, ntags, metadata, ret, error, result, calls,
    callback, faults>>

pixelVars == <<bitmap, bits, bits0, palette, fi_type>>
pageVars == <<pages, i, seen, out>>
mdVars == <<number, tag, ntags, metadata>>
envVars == <<op, littleEndian, input, callback, faults>>

Call(name, arg) == <<name, arg>>
Log(name, arg) == calls' = Append(calls, Call(name, arg))

\* FreeImage_OpenMultiBitmap is logged with its three mode arguments
LogOpen(multibitmap, create_new, read_only, keep_cache_in_memory) ==
  calls' = Append(calls, <<"FreeImage_OpenMultiBitmap", multibitmap,
                           <<create_new, read_only, keep_cache_in_memory>>>>)

ReadOps == {"read", "read_metadata"}
MultiOps == {"read_multipage", "read_multipage_metadata"}
MetadataOps == {"read_metadata", "read_multipage_metadata"}
WriteOps == {"write", "write_multipage"}

Start(o) ==
  CASE o \in ReadOps -> "pb_GetFileType"
    [] o \in MultiOps -> "pm_GetFileType"
    [] o = "write" -> "w_GetFIF"
    [] o = "write_multipage" -> "wm_GetFIF"

\* load_freeimage, lines 71-76: error_handler is made and handed to
\* FreeImage_SetOutputMessage once; the name error_handler, a local of
\* load_freeimage, is the only reference to the ctypes callback object, and
\* it is gone when load_freeimage returns
load_freeimage == [installs |-> 1, registered |-> TRUE, referenced |-> FALSE]

RECURSIVE Lists(_, _)
Lists(S, n) ==
  IF n = 0 THEN {<<>>}
  ELSE Lists(S, n - 1) \cup
       {Append(l, x) : l \in {m \in Lists(S, n - 1) : Len(m) = n - 1}, x \in S}

Inputs(o) ==
  CASE o = "write" -> Arrays
    [] o = "write_multipage" -> Lists(PageArrays, MaxPages)
    [] OTHER -> {Null}

InitOf(ops) ==
  /\ op \in ops
  /\ pc = Start(op)
  /\ littleEndian \in BOOLEAN
  /\ input \in Inputs(op)
  /\ bitmap = Null /\ bits = NoBits /\ bits0 = NoBits /\ palette = Null
  /\ fi_type = Null
  /\ pages = 0 /\ i = 0 /\ seen = <<>> /\ out = <<>>
  /\ number = 0 /\ tag = Null /\ ntags = 0 /\ metadata = <<>>
  /\ ret = Null /\ error = NoError /\ result = Null
  /\ calls = <<>>
  /\ callback = load_freeimage /\ faults = <<>>

(***************************************************************************)
(* error_handler, the callback the decoder invokes from within one of its  *)
(* calls that decode or encode a file.  The exception it raises is raised  *)
(* in a ctypes callback: ctypes reports it on stderr and returns to the    *)
(* decoder, so it never reaches the operation in progress.  A callback     *)
(* object nothing references may have been freed: calling it then runs the *)
(* handler all the same or ends the process.                               *)
(***************************************************************************)
ReportingCalls == {"pb_Load", "pm_Open", "pm_LockPage", "w_Save", "wm_Close"}

error_handler ==
  /\ pc \in ReportingCalls
  /\ callback.registered
  /\ Len(faults) < MaxFaults
  /\ faults' = Append(faults, "message")
  /\ \E outcome \in IF callback.referenced THEN {"ran"} ELSE {"ran", "crashed"} :
       pc' = IF outcome = "crashed" THEN "crashed" ELSE pc
  /\ UNCHANGED <<op, littleEndian, input, callback, pixelVars, pageVars, mdVars,
                 ret, error, result, calls>>

\* the statement that follows process_func, returning or raising
AfterProcess == IF op \in ReadOps THEN "pb_Unload" ELSE "pm_UnlockPage"

(***************************************************************************)
(* _process_bitmap                                                         *)
(***************************************************************************)
PB_GetFileType ==
  /\ pc = "pb_GetFileType"
  /\ \E ftype \in {0 - 1, 0} :
       IF ftype = 0 - 1
         THEN /\ pc' = "raised"
              /\ error' = <<"ValueError", "Cannot determine type of file">>
         ELSE /\ pc' = "pb_Load"
              /\ UNCHANGED error
  /\ UNCHANGED <<envVars, pixelVars, pageVars, mdVars, ret, result, calls>>

\* the first statement of the function process_func names
Process == IF op \in MetadataOps THEN "md_FindFirst" ELSE "afb"

PB_Load ==
  /\ pc = "pb_Load"
  /\ \E b \in {Null} \cup (IF op = "read" THEN Bitmaps(1) ELSE {Header(1)}),
        seed \in 0..MaxSeed :
       /\ Log("FreeImage_Load", IF b = Null THEN 0 ELSE b.id)
       /\ IF b = Null
            THEN /\ seed = 0
                 /\ pc' = "raised"
                 /\ error' = <<"ValueError", "Could not load file">>
                 /\ UNCHANGED <<bitmap, bits, bits0>>
            ELSE /\ op = "read_metadata" => seed = 0
                 /\ bitmap' = b
                 /\ bits' = IF op = "read" THEN Stored(b, seed) ELSE NoBits
                 /\ bits0' = bits'
                 /\ pc' = Process
                 /\ UNCHANGED error
  /\ UNCHANGED <<envVars, palette, fi_type, pageVars, mdVars, ret, result>>

\* mutant: the unload written after the call instead of in a finally clause
PB_Unload_NoFinally ==
  /\ pc = "pb_Unload"
  /\ IF error = NoError
       THEN Log("FreeImage_Unload", bitmap.id) /\ pc' = "returned" /\ result' = ret
       ELSE pc' = "raised" /\ UNCHANGED <<result, calls>>
  /\ UNCHANGED <<envVars, pixelVars, pageVars, mdVars, ret, error>>

PB_Unload ==
  /\ pc = "pb_Unload"
  /\ Log("FreeImage_Unload", bitmap.id)
  /\ IF error = NoError
       THEN pc' = "returned" /\ result' = ret
       ELSE pc' = "raised" /\ UNCHANGED result
  /\ UNCHANGED <<envVars, pixelVars, pageVars, mdVars, ret, error>>

(***************************************************************************)
(* _array_from_bitmap, as process_func                                     *)
(***************************************************************************)
AFB ==
  /\ pc = "afb"
  /\ LET r == _array_from_bitmap(bitmap, bits, littleEndian)
     IN IF r.ok
          THEN /\ ret' = r.value
               /\ bits' = BitsAfterRead(bitmap, bits, littleEndian)
               /\ UNCHANGED error
          ELSE /\ error' = r.err
               /\ UNCHANGED <<ret, bits>>
  /\ pc' = AfterProcess
  /\ UNCHANGED <<envVars, bitmap, bits0, palette, fi_type, pageVars, mdVars,
                 result, calls>>


(***************************************************************************)
(* _read_metadata, as process_func.  The models are visited in the order   *)
(* of their numbers; a cursor is named by the number of its model.  A      *)
(* single-image file holds at most MaxTags tags, any of Tags; a multi-page *)
(* file holds at most MaxPageTags on all its pages together, any of        *)
(* PageTags.                                                               *)
(***************************************************************************)
TagBudget == IF op = "read_metadata" THEN MaxTags ELSE MaxPageTags

PageTags == {t \in Tags : t.key \in {"Artist", "NoType"}}

NextTags ==
  {Null} \cup (IF ntags < TagBudget
                THEN (IF op = "read_metadata" THEN Tags ELSE PageTags)
                ELSE {})

\* metadata[(model_name, tag_name)] = tag_val
Put(m, key, val) ==
  [k \in DOMAIN m \cup {key} |-> IF k = key THEN val ELSE m[k]]

MD_FindFirst ==
  /\ pc = "md_FindFirst"
  /\ number < NModels
  /\ \E t \in NextTags :
       IF t = Null
         THEN /\ Log("FreeImage_FindFirstMetadata:NULL", number)
              /\ number' = number + 1
              /\ UNCHANGED <<pc, tag, ntags>>
         ELSE /\ Log("FreeImage_FindFirstMetadata", number)
              /\ tag' = t
              /\ ntags' = ntags + 1
              /\ pc' = "md_Tag"
              /\ UNCHANGED number
  /\ UNCHANGED <<envVars, pixelVars, pageVars, metadata, ret, error, result>>

\* one turn of the while loop, and FindCloseMetadata when it ends the loop
MD_Tag ==
  /\ pc = "md_Tag"
  /\ LET r == DecodeTag(tag)
     IN IF ~r.ok
          THEN /\ error' = r.err
               /\ pc' = AfterProcess
               /\ UNCHANGED <<number, tag, ntags, metadata, calls>>
          ELSE /\ metadata' = Put(metadata, <<ModelNames[number + 1], tag.key>>,
                                  r.value)
               /\ UNCHANGED error
               /\ \E more \in NextTags :
                    IF more = Null
                      THEN /\ Log("FreeImage_FindCloseMetadata", number)
                           /\ number' = number + 1
                           /\ pc' = "md_FindFirst"
                           /\ UNCHANGED <<tag, ntags>>
                      ELSE /\ tag' = more
                           /\ ntags' = ntags + 1
                           /\ UNCHANGED <<pc, number, calls>>
  /\ UNCHANGED <<envVars, pixelVars, pageVars, ret, result>>

MD_Return ==
  /\ pc = "md_FindFirst"
  /\ number = NModels
  /\ ret' = metadata
  /\ pc' = AfterProcess
  /\ UNCHANGED <<envVars, pixelVars, pageVars, mdVars, error, result, calls>>

(***************************************************************************)
(* _process_multipage                                                      *)
(***************************************************************************)
PM_GetFileType ==
  /\ pc = "pm_GetFileType"
  /\ \E ftype \in {0 - 1, 0} :
       IF ftype = 0 - 1
         THEN /\ pc' = "raised"
              /\ error' = <<"ValueError", "Cannot determine type of file">>
         ELSE /\ pc' = "pm_Open"
              /\ UNCHANGED error
  /\ UNCHANGED <<envVars, pixelVars, pageVars, mdVars, ret, result, calls>>

PM_Open ==
  /\ pc = "pm_Open"
  /\ \E multibitmap \in {0, 1} :
       /\ LogOpen(multibitmap, FALSE, TRUE, TRUE)
       /\ IF multibitmap = 0
            THEN /\ pc' = "raised"
                 /\ error' = <<"ValueError", "Could not open as multi-page image">>
            ELSE /\ pc' = "pm_GetPageCount"
                 /\ UNCHANGED error
  /\ UNCHANGED <<envVars, pixelVars, pageVars, mdVars, ret, result>>

PM_GetPageCount ==
  /\ pc = "pm_GetPageCount"
  /\ pages' \in 0..MaxPages
  /\ i' = 0
  /\ out' = <<>>
  /\ pc' = "pm_LockPage"
  /\ UNCHANGED <<envVars, pixelVars, seen, mdVars, ret, error, result, calls>>

\* mutant: the result put at the front of the list
Collect_Prepend(list, value) == <<value>> \o list

\* out.append(process_func(bitmap))
Collect(list, value) == Append(list, value)

PM_LockPage ==
  /\ pc = "pm_LockPage"
  /\ IF i = pages
       THEN /\ pc' = "pm_Close"
            /\ UNCHANGED <<bitmap, bits, bits0, seen, mdVars, error, calls>>
       ELSE \E b \in {Null} \cup (IF op = "read_multipage"
                                   THEN Pages(i + 1) ELSE {Header(i + 1)}),
               seed \in 0..MaxSeed :
              IF b = Null
                THEN /\ seed = 0
                     /\ Log("FreeImage_LockPage:NULL", i)
                     /\ error' = <<"ValueError",
                                   "Could not open as a multi-page image">>
                     /\ pc' = "pm_Close"
                     /\ UNCHANGED <<bitmap, bits, bits0, seen, mdVars>>
                ELSE /\ op = "read_multipage_metadata" => seed = 0
                     /\ Log("FreeImage_LockPage", b.id)
                     /\ bitmap' = b
                     /\ bits' = IF op = "read_multipage"
                                  THEN Stored(b, seed) ELSE NoBits
                     /\ bits0' = bits'
                     /\ seen' = Append(seen, [bitmap |-> b, bits |-> bits',
                                              ret |-> Null])
                     /\ number' = 0 /\ tag' = Null /\ metadata' = <<>>
                     /\ UNCHANGED ntags
                     /\ pc' = Process
                     /\ UNCHANGED error
  /\ UNCHANGED <<envVars, palette, fi_type, pages, i, out, ret, result>>

\* mutant: the unlock written after the append instead of in a finally clause
PM_UnlockPage_NoFinally ==
  /\ pc = "pm_UnlockPage"
  /\ IF error = NoError
       THEN /\ Log("FreeImage_UnlockPage", bitmap.id)
            /\ out' = Collect(out, ret)
            /\ seen' = [seen EXCEPT ![Len(seen)].ret = ret]
            /\ i' = i + 1
            /\ pc' = "pm_LockPage"
       ELSE /\ pc' = "pm_Close"
            /\ UNCHANGED <<out, seen, i, calls>>
  /\ UNCHANGED <<envVars, pixelVars, pages, mdVars, ret, error, result>>

PM_UnlockPage ==
  /\ pc = "pm_UnlockPage"
  /\ Log("FreeImage_UnlockPage", bitmap.id)
  /\ IF error = NoError
       THEN /\ out' = Collect(out, ret)
            /\ seen' = [seen EXCEPT ![Len(seen)].ret = ret]
            /\ i' = i + 1
            /\ pc' = "pm_LockPage"
       ELSE /\ pc' = "pm_Close"
            /\ UNCHANGED <<out, seen, i>>
  /\ UNCHANGED <<envVars, pixelVars, pages, mdVars, ret, error, result>>

PM_Close ==
  /\ pc = "pm_Close"
  /\ Log("FreeImage_CloseMultiBitmap", 1)
  /\ IF error = NoError
       THEN pc' = "returned" /\ result' = out
       ELSE pc' = "raised" /\ UNCHANGED result
  /\ UNCHANGED <<envVars, pixelVars, pageVars, mdVars, ret, error>>

ProcessNext == AFB \/ MD_FindFirst \/ MD_Tag \/ MD_Return
ReadNext ==
  PB_GetFileType \/ PB_Load \/ PB_Unload \/ ProcessNext \/ error_handler
MultiNext ==
  PM_GetFileType \/ PM_Open \/ PM_GetPageCount \/ PM_LockPage
  \/ PM_UnlockPage \/ PM_Close \/ ProcessNext \/ error_handler

InitRead == InitOf(ReadOps)
SpecRead == InitRead /\ [][ReadNext]_vars
InitMulti == InitOf(MultiOps)
SpecMulti == InitMulti /\ [][MultiNext]_vars


(***************************************************************************)
(* _array_to_bitmap, called by write and by write_multipage                *)
(***************************************************************************)
TheArray == IF op = "write" THEN input ELSE input[i + 1]
TheId == IF op = "write" THEN 1 ELSE i + 1

\* where an exception leaving _array_to_bitmap lands, and where its return does
BuildRaised == IF op = "write" THEN "raised" ELSE "wm_Close"
BuildReturned == IF op = "write" THEN "w_Query" ELSE "wm_Append"

\* mutant: the registry is consulted only after the handle is allocated
AB_Allocate_LateLookup ==
  /\ pc = "ab_Allocate"
  /\ LET shape == TheArray.shape
         dtype == TheArray.dtype
         nchannels == IF Len(shape) = 2 THEN 1 ELSE shape[3]
         itemsize == ItemSize(dtype)
         bpp == 8 * itemsize * nchannels
     IN IF Len(shape) \notin {2, 3}
          THEN /\ error' = <<"ValueError", "Only arrays with shape = (width, height) or (width, height, nchannels) are permitted">>
               /\ pc' = BuildRaised
               /\ UNCHANGED <<bitmap, bits, bits0, calls>>
        ELSE IF <<dtype, nchannels>> \notin DOMAIN FI_fi_types
          THEN /\ Log("FreeImage_AllocateT", TheId)
               /\ error' = <<"ValueError", "Cannot write arrays of given type and shape.">>
               /\ pc' = BuildRaised
               /\ UNCHANGED <<bitmap, bits, bits0>>
        ELSE \E ptr \in {0, 1}, pad \in 0..MaxPad :
               IF ptr = 0
                 THEN /\ pad = 0
                      /\ Log("FreeImage_AllocateT", 0)
                      /\ error' = <<"RuntimeError", "Could not allocate image for storage">>
                      /\ pc' = BuildRaised
                      /\ UNCHANGED <<bitmap, bits, bits0>>
                 ELSE /\ Log("FreeImage_AllocateT", TheId)
                      /\ bitmap' = Bitmap(TheId, FI_fi_types[<<dtype, nchannels>>],
                                          bpp, shape[1], shape[2], pad)
                      /\ bits' = Blank(bitmap')
                      /\ bits0' = bits'
                      /\ pc' = "ab_Copy"
                      /\ UNCHANGED error
  /\ UNCHANGED <<envVars, palette, fi_type, pageVars, mdVars, ret, result>>

\* lines 581-599: the checks, and FreeImage_AllocateT
AB_Allocate ==
  /\ pc = "ab_Allocate"
  /\ LET shape == TheArray.shape
         dtype == TheArray.dtype
         nchannels == IF Len(shape) = 2 THEN 1 ELSE shape[3]
         itemsize == ItemSize(dtype)
         bpp == 8 * itemsize * nchannels
     IN IF Len(shape) \notin {2, 3}
          THEN /\ error' = <<"ValueError", "Only arrays with shape = (width, height) or (width, height, nchannels) are permitted">>
               /\ pc' = BuildRaised
               /\ UNCHANGED <<bitmap, bits, bits0, calls>>
        ELSE IF <<dtype, nchannels>> \notin DOMAIN FI_fi_types
          THEN /\ error' = <<"ValueError", "Cannot write arrays of given type and shape.">>
               /\ pc' = BuildRaised
               /\ UNCHANGED <<bitmap, bits, bits0, calls>>
        ELSE \E ptr \in {0, 1}, pad \in 0..MaxPad :
               IF ptr = 0
                 THEN /\ pad = 0
                      /\ Log("FreeImage_AllocateT", 0)
                      /\ error' = <<"RuntimeError", "Could not allocate image for storage">>
                      /\ pc' = BuildRaised
                      /\ UNCHANGED <<bitmap, bits, bits0>>
                 ELSE /\ Log("FreeImage_AllocateT", TheId)
                      /\ bitmap' = Bitmap(TheId, FI_fi_types[<<dtype, nchannels>>],
                                          bpp, shape[1], shape[2], pad)
                      /\ bits' = Blank(bitmap')
                      /\ bits0' = bits'
                      /\ pc' = "ab_Copy"
                      /\ UNCHANGED error
  /\ UNCHANGED <<envVars, palette, fi_type, pageVars, mdVars, ret, result>>

\* lines 600-617: the body of the try
AB_Copy ==
  /\ pc = "ab_Copy"
  /\ LET array == TheArray
         copy == CopyIn(bitmap, bits, array, littleEndian)
     IN IF ~copy.ok
          THEN /\ error' = copy.err
               /\ pc' = "ab_Except"
               /\ UNCHANGED <<bits, palette, fi_type>>
        ELSE /\ bits' = copy.bits
             /\ IF Len(array.shape) = 2 /\ array.dtype = "uint8"
                  THEN \E ptr \in {0, 1} :
                         IF ptr = 0
                           THEN /\ error' = <<"RuntimeError", "Could not get image palette">>
                                /\ pc' = "ab_Except"
                                /\ UNCHANGED <<palette, fi_type>>
                           ELSE /\ palette' = InstallPalette
                                /\ fi_type' = bitmap.fi_type
                                /\ pc' = BuildReturned
                                /\ UNCHANGED error
                  ELSE /\ palette' = Null
                       /\ fi_type' = bitmap.fi_type
                       /\ pc' = BuildReturned
                       /\ UNCHANGED error
  /\ UNCHANGED <<envVars, bitmap, bits0, pageVars, mdVars, ret, result, calls>>

\* mutant: the except clause re-raises without unloading
AB_Except_Leak ==
  /\ pc = "ab_Except"
  /\ pc' = BuildRaised
  /\ UNCHANGED <<envVars, pixelVars, pageVars, mdVars, ret, error, result, calls>>

\* lines 618-620: the except clause
AB_Except ==
  /\ pc = "ab_Except"
  /\ Log("FreeImage_Unload", bitmap.id)
  /\ pc' = BuildRaised
  /\ UNCHANGED <<envVars, pixelVars, pageVars, mdVars, ret, error, result>>

(***************************************************************************)
(* write                                                                   *)
(***************************************************************************)
W_GetFIF ==
  /\ pc = "w_GetFIF"
  /\ \E ftype \in {0 - 1, 0} :
       IF ftype = 0 - 1
         THEN /\ pc' = "raised"
              /\ error' = <<"ValueError", "Cannot determine type for file">>
         ELSE /\ pc' = "ab_Allocate"
              /\ UNCHANGED error
  /\ UNCHANGED <<envVars, pixelVars, pageVars, mdVars, ret, result, calls>>

\* mutant: the answer of the capability query does not stop the save
W_Query_Unchecked ==
  /\ pc = "w_Query"
  /\ IF fi_type = FIT_BITMAP
       THEN Log("FreeImage_FIFSupportsExportBPP", bitmap.bpp)
       ELSE Log("FreeImage_FIFSupportsExportType", fi_type)
  /\ \E can_write \in BOOLEAN :
       IF ~can_write
         THEN error' = <<"TypeError", "Cannot save image of this format to this file type">>
         ELSE UNCHANGED error
  /\ pc' = "w_Save"
  /\ UNCHANGED <<envVars, pixelVars, pageVars, mdVars, ret, result>>

\* lines 528-535: the capability query
W_Query ==
  /\ pc = "w_Query"
  /\ IF fi_type = FIT_BITMAP
       THEN Log("FreeImage_FIFSupportsExportBPP", bitmap.bpp)
       ELSE Log("FreeImage_FIFSupportsExportType", fi_type)
  /\ \E can_write \in BOOLEAN :
       IF ~can_write
         THEN /\ error' = <<"TypeError", "Cannot save image of this format to this file type">>
              /\ pc' = "w_Unload"
         ELSE /\ pc' = "w_Save"
              /\ UNCHANGED error
  /\ UNCHANGED <<envVars, pixelVars, pageVars, mdVars, ret, result>>

W_Save ==
  /\ pc = "w_Save"
  /\ Log("FreeImage_Save", bitmap.id)
  /\ \E res \in BOOLEAN :
       IF ~res
         THEN error' = <<"RuntimeError", "Could not save image properly.">>
         ELSE UNCHANGED error
  /\ pc' = "w_Unload"
  /\ UNCHANGED <<envVars, pixelVars, pageVars, mdVars, ret, result>>

W_Unload ==
  /\ pc = "w_Unload"
  /\ Log("FreeImage_Unload", bitmap.id)
  /\ pc' = IF error = NoError THEN "returned" ELSE "raised"
  /\ UNCHANGED <<envVars, pixelVars, pageVars, mdVars, ret, error, result>>

(***************************************************************************)
(* write_multipage                                                         *)
(***************************************************************************)
WM_GetFIF ==
  /\ pc = "wm_GetFIF"
  /\ \E ftype \in {0 - 1, 0} :
       IF ftype = 0 - 1
         THEN /\ pc' = "raised"
              /\ error' = <<"ValueError", "Cannot determine type of file">>
         ELSE /\ pc' = "wm_Open"
              /\ UNCHANGED error
  /\ UNCHANGED <<envVars, pixelVars, pageVars, mdVars, ret, result, calls>>

WM_Open ==
  /\ pc = "wm_Open"
  /\ \E multibitmap \in {0, 1} :
       /\ LogOpen(multibitmap, TRUE, FALSE, TRUE)
       /\ IF multibitmap = 0
            THEN /\ pc' = "raised"
                 /\ error' = <<"ValueError", "Could not open for writing multi-page image.">>
            ELSE /\ pc' = "wm_Next"
                 /\ UNCHANGED error
  /\ UNCHANGED <<envVars, pixelVars, pageVars, mdVars, ret, result>>

\* mutant: the loop goes on to the next array after a failure
WM_Next_Continue ==
  /\ pc \in {"wm_Next", "wm_Close"}
  /\ pc = "wm_Close" => error # NoError /\ i + 1 < Len(input)
  /\ i' = IF pc = "wm_Close" THEN i + 1 ELSE i
  /\ pc' = IF i' = Len(input) THEN "wm_Close" ELSE "ab_Allocate"
  /\ UNCHANGED <<envVars, pixelVars, pages, seen, out, mdVars, ret, error,
                 result, calls>>

\* for array in arrays
WM_Next ==
  /\ pc = "wm_Next"
  /\ pc' = IF i = Len(input) THEN "wm_Close" ELSE "ab_Allocate"
  /\ UNCHANGED <<envVars, pixelVars, pageVars, mdVars, ret, error, result, calls>>

WM_Append ==
  /\ pc = "wm_Append"
  /\ Log("FreeImage_AppendPage", bitmap.id)
  /\ i' = i + 1
  /\ pc' = "wm_Next"
  /\ UNCHANGED <<envVars, pixelVars, pages, seen, out, mdVars, ret, error, result>>

WM_Close ==
  /\ pc = "wm_Close"
  /\ Log("FreeImage_CloseMultiBitmap", 1)
  /\ pc' = IF error = NoError THEN "returned" ELSE "raised"
  /\ UNCHANGED <<envVars, pixelVars, pageVars, mdVars, ret, error, result>>

BuildNext == AB_Allocate \/ AB_Copy \/ AB_Except
WriteNext ==
  W_GetFIF \/ W_Query \/ W_Save \/ W_Unload \/ BuildNext \/ error_handler
WriteMultiNext ==
  WM_GetFIF \/ WM_Open \/ WM_Next \/ WM_Append \/ WM_Close \/ BuildNext
  \/ error_handler

InitWrite == InitOf({"write"})
SpecWrite == InitWrite /\ [][WriteNext]_vars
InitWriteMulti == InitOf({"write_multipage"})
SpecWriteMulti == InitWriteMulti /\ [][WriteMultiNext]_vars

Init == InitOf(ReadOps \cup MultiOps \cup WriteOps)
Next == ReadNext \/ MultiNext \/ WriteNext \/ WriteMultiNext
Spec == Init /\ [][Next]_vars


(***************************************************************************)
(* Reading the history of decoder calls.                                   *)
(***************************************************************************)
Done == pc \in {"returned", "raised"}

At(name, arg) == {k \in 1..Len(calls) : calls[k][1] = name /\ calls[k][2] = arg}
Count(name, arg) == Cardinality(At(name, arg))
Made(name, arg) == At(name, arg) # {}
Named(name) == {k \in 1..Len(calls) : calls[k][1] = name}
LastIs(name) == calls # <<>> /\ calls[Len(calls)][1] = name

\* the arguments of the calls of one name, in the order made
RECURSIVE ArgsFrom(_, _)
ArgsFrom(name, k) ==
  IF k > Len(calls) THEN <<>>
  ELSE (IF calls[k][1] = name THEN <<calls[k][2]>> ELSE <<>>)
       \o ArgsFrom(name, k + 1)
Args(name) == ArgsFrom(name, 1)

UpTo(n) == [k \in 1..n |-> k]

SniffFailed == error = <<"ValueError", "Cannot determine type of file">>

(***************************************************************************)
(* C1: in read and read_metadata a handle FreeImage_Load returned is       *)
(* unloaded exactly once by the time the operation returns or raises,      *)
(* whatever process_func did, and never before it was loaded; after a      *)
(* failed sniff nothing is loaded, and after a null load nothing is        *)
(* unloaded.                                                               *)
(***************************************************************************)
C1_LoadedHandleReleasedOnce ==
  /\ \A k \in Named("FreeImage_Unload") :
       \E j \in At("FreeImage_Load", calls[k][2]) : j < k /\ calls[k][2] # 0
  /\ Count("FreeImage_Unload", 1) <= 1
  /\ (Done /\ Made("FreeImage_Load", 1)) =>
       Count("FreeImage_Unload", 1) = 1 /\ LastIs("FreeImage_Unload")
  /\ (pc = "returned") => Made("FreeImage_Load", 1)
  /\ (pc = "raised" /\ SniffFailed) => calls = <<>>
  /\ Made("FreeImage_Load", 0) => calls = <<Call("FreeImage_Load", 0)>> /\ pc = "raised"

C1_Witness ==
  /\ pc = "raised" /\ op = "read"
  /\ error = <<"KeyError", "fi_type">>
  /\ calls = <<Call("FreeImage_Load", 1), Call("FreeImage_Unload", 1)>>

LockedNow ==
  {id \in 1..MaxPages + 1 :
     Count("FreeImage_LockPage", id) > Count("FreeImage_UnlockPage", id)}

(***************************************************************************)
(* C3: in the multi-page reads at most one page is locked at any time,     *)
(* every locked page is unlocked exactly once, and a session that was      *)
(* opened is closed exactly once, as the last call, with no page locked.   *)
(***************************************************************************)
C3_PagesUnlockedSessionClosedOnce ==
  /\ Cardinality(LockedNow) <= 1
  /\ \A id \in 1..MaxPages + 1 :
       /\ Count("FreeImage_LockPage", id) <= 1
       /\ Count("FreeImage_UnlockPage", id) <= Count("FreeImage_LockPage", id)
  /\ \A k \in Named("FreeImage_UnlockPage") :
       \E j \in At("FreeImage_LockPage", calls[k][2]) : j < k
  /\ Cardinality(Named("FreeImage_CloseMultiBitmap")) <= 1
  /\ Named("FreeImage_CloseMultiBitmap") # {} =>
       /\ LastIs("FreeImage_CloseMultiBitmap")
       /\ LockedNow = {}
       /\ Made("FreeImage_OpenMultiBitmap", 1)
  /\ (Done /\ Made("FreeImage_OpenMultiBitmap", 1)) =>
       LastIs("FreeImage_CloseMultiBitmap")
  /\ \A k \in Named("FreeImage_OpenMultiBitmap") :
       k = 1 /\ calls[k][3] = <<FALSE, TRUE, TRUE>>

C3_Witness ==
  /\ pc = "raised" /\ op = "read_multipage"
  /\ error = <<"ValueError", "Unknown image pixel type">>
  /\ Args("FreeImage_UnlockPage") = <<1, 2>>
  /\ LastIs("FreeImage_CloseMultiBitmap")

LockFailed == Named("FreeImage_LockPage:NULL") # {}

(***************************************************************************)
(* C4: a multi-page read that returns gives pageCount entries, entry k     *)
(* what process_func returned for the k-th page locked, the pages locked   *)
(* in increasing index order; one that fails returns nothing, fails with   *)
(* the error of the lock or of the page, and that page is the last locked. *)
(***************************************************************************)
C4_AllOrNothingInOrder ==
  /\ Args("FreeImage_LockPage") = UpTo(Len(seen))
  /\ \A k \in 1..Len(seen) : seen[k].bitmap.id = k
  /\ pc = "returned" =>
       /\ Len(result) = pages
       /\ Len(seen) = pages
       /\ \A k \in 1..pages :
            /\ result[k] = seen[k].ret
            /\ op = "read_multipage" =>
                 result[k] = _array_from_bitmap(seen[k].bitmap, seen[k].bits,
                                                littleEndian).value
  /\ pc = "raised" => result = Null
  /\ (pc = "raised" /\ Made("FreeImage_OpenMultiBitmap", 1)) =>
       /\ Len(out) < pages
       /\ IF LockFailed
            THEN /\ Len(seen) = Len(out)
                 /\ Args("FreeImage_LockPage:NULL") = <<Len(out)>>
                 /\ error = <<"ValueError", "Could not open as a multi-page image">>
            ELSE /\ Len(seen) = Len(out) + 1
                 /\ op = "read_multipage" =>
                      error = _array_from_bitmap(seen[Len(seen)].bitmap,
                                seen[Len(seen)].bits, littleEndian).err
                 /\ op = "read_multipage_metadata" => error = DecodeTag(tag).err

C4_Witness ==
  /\ pc = "returned" /\ op = "read_multipage"
  /\ pages = 2 /\ Len(result) = 2
  /\ result[1].dtype # result[2].dtype


(***************************************************************************)
(* C2: in write a handle FreeImage_AllocateT returned is unloaded exactly  *)
(* once on every exit path, by the except clause of _array_to_bitmap or by *)
(* the finally clause of write and never by both; nothing is unloaded      *)
(* when nothing was allocated.                                             *)
(***************************************************************************)
C2_AllocatedHandleReleasedOnce ==
  /\ \A k \in Named("FreeImage_Unload") :
       calls[k][2] = 1 /\ \E j \in At("FreeImage_AllocateT", 1) : j < k
  /\ Count("FreeImage_Unload", 1) <= 1
  /\ Count("FreeImage_AllocateT", 1) <= 1
  /\ (Done /\ Made("FreeImage_AllocateT", 1)) =>
       Count("FreeImage_Unload", 1) = 1 /\ LastIs("FreeImage_Unload")
  /\ pc = "returned" => Made("FreeImage_AllocateT", 1)

\* the palette failure: the except clause releases, write's finally is not entered
C2_Witness ==
  /\ pc = "raised" /\ op = "write"
  /\ error = <<"RuntimeError", "Could not get image palette">>
  /\ calls = <<Call("FreeImage_AllocateT", 1), Call("FreeImage_Unload", 1)>>

Allocated == {id \in 1..MaxPages + 1 : Made("FreeImage_AllocateT", id)}

\* who is to release a handle: the session it was appended to, or nobody
\* any more once _array_to_bitmap unloaded it
Owner(id) ==
  CASE Made("FreeImage_AppendPage", id) -> "session"
    [] Made("FreeImage_Unload", id) -> "released"
    [] OTHER -> "builder"

(***************************************************************************)
(* C5: in write_multipage an opened session (create, not read-only,        *)
(* cached in memory) is closed exactly once, as the last call; every       *)
(* handle allocated is appended exactly once, in input order, or unloaded  *)
(* exactly once by _array_to_bitmap, never both; and after a failure no    *)
(* array is allocated or appended.                                         *)
(***************************************************************************)
C5_SessionClosedPagesOwned ==
  /\ \A k \in Named("FreeImage_OpenMultiBitmap") :
       k = 1 /\ calls[k][3] = <<TRUE, FALSE, TRUE>>
  /\ Cardinality(Named("FreeImage_CloseMultiBitmap")) <= 1
  /\ Named("FreeImage_CloseMultiBitmap") # {} =>
       LastIs("FreeImage_CloseMultiBitmap") /\ Made("FreeImage_OpenMultiBitmap", 1)
  /\ (Done /\ Made("FreeImage_OpenMultiBitmap", 1)) =>
       LastIs("FreeImage_CloseMultiBitmap")
  /\ \A id \in 1..MaxPages + 1 :
       /\ Count("FreeImage_AllocateT", id) <= 1
       /\ Count("FreeImage_AppendPage", id) + Count("FreeImage_Unload", id)
            <= Count("FreeImage_AllocateT", id)
  /\ Args("FreeImage_AppendPage") = UpTo(i)
  /\ Done => \A id \in Allocated : Owner(id) # "builder"
  /\ error # NoError => \A id \in Allocated : id <= i + 1
  /\ pc = "returned" => Args("FreeImage_AppendPage") = UpTo(Len(input))

C5_Witness ==
  /\ pc = "raised" /\ op = "write_multipage"
  /\ error[1] = "IndexError"
  /\ Owner(1) = "session" /\ Owner(2) = "released"
  /\ Len(input) = 2

OpenCursors ==
  {m \in 0..NModels - 1 :
     Count("FreeImage_FindFirstMetadata", m) > Count("FreeImage_FindCloseMetadata", m)}

(***************************************************************************)
(* C6: in _read_metadata a cursor FreeImage_FindFirstMetadata returned is  *)
(* closed exactly once before the next model is tried and before the       *)
(* function is left, by return or by an error of the decoding; a model     *)
(* without a cursor gets no close.                                         *)
(***************************************************************************)
C6_CursorClosedOnEveryExit ==
  /\ \A m \in 0..NModels - 1 :
       Count("FreeImage_FindCloseMetadata", m) <= Count("FreeImage_FindFirstMetadata", m)
  /\ OpenCursors = IF pc = "md_Tag" THEN {number} ELSE {}


(***************************************************************************)
(* The arrays the write-side table registers, and the failures of write    *)
(* that are the decoder's: a null or false result of one of its calls.     *)
(***************************************************************************)
NChannels(a) == IF Len(a.shape) = 2 THEN 1 ELSE a.shape[3]

Registered(a) ==
  /\ Len(a.shape) \in {2, 3}
  /\ <<a.dtype, NChannels(a)>> \in DOMAIN FI_fi_types

DecoderRefusals ==
  {<<"ValueError", "Cannot determine type for file">>,
   <<"RuntimeError", "Could not allocate image for storage">>,
   <<"RuntimeError", "Could not get image palette">>,
   <<"TypeError", "Cannot save image of this format to this file type">>,
   <<"RuntimeError", "Could not save image properly.">>}

\* the bitmap is built and _array_to_bitmap has returned it
Built == op = "write" /\ pc \in {"w_Query", "w_Save", "w_Unload", "returned"}

ResolvesTo(b, a) ==
  LET r == get_type_and_shape(b)
  IN r.ok /\ r.dtype = a.dtype /\ r.shape = a.shape

(***************************************************************************)
(* C7: for every array of rank 2, or of rank 3 with 3 or 4 channels, whose *)
(* (dtype, channel count) pair is registered, on either endianness,        *)
(* _array_to_bitmap raises nothing of its own, and the bitmap it builds    *)
(* resolves on the read side to the dtype and the shape of the array.      *)
(***************************************************************************)
C7_RegistryRoundTrip ==
  (Registered(input) /\ ~(Len(input.shape) = 3 /\ input.shape[3] = 1)) =>
    /\ error = NoError \/ error \in DecoderRefusals
    /\ Built => ResolvesTo(bitmap, input)

\* C7 as stated: the same of every registered array of rank 2 or 3, those of
\* shape (w, h, 1) included
C7_AsStated ==
  Registered(input) =>
    /\ error = NoError \/ error \in DecoderRefusals
    /\ Built => ResolvesTo(bitmap, input)

C7_Witness ==
  /\ Built /\ pc = "returned"
  /\ input.dtype = "float32" /\ input.shape = <<2, 2, 4>>
  /\ ResolvesTo(bitmap, input)

\* a[x, y, c], where a has dropped a channel axis of length 1
Elem(a, j) == IF Len(a.shape) = Len(j) THEN a.data[j] ELSE a.data[<<j[1], j[2]>>]

(***************************************************************************)
(* C8: the array _array_from_bitmap makes of a bitmap _array_to_bitmap     *)
(* built holds, at every (x, y, channel), the element of the array that    *)
(* was written: for uint8 with 3 or 4 channels on either endianness, and   *)
(* for every other array the write path accepts.                           *)
(***************************************************************************)
C8_ChannelOrderRoundTrip ==
  Built =>
    LET r == _array_from_bitmap(bitmap, bits, littleEndian)
    IN /\ r.ok
       /\ \A j \in Indices(input.shape) : Elem(r.value, j) = input.data[j]

C8_Witness ==
  /\ Built /\ littleEndian
  /\ input.dtype = "uint8" /\ input.shape = <<2, 2, 4>>
  /\ bits[bitmap.pitch] = input.data[<<0, 0, 2>>]

StoredAt(b, mem, x, y, c, nchannels) ==
  mem[b.pitch * (b.height - 1 - y) + (x * nchannels + c) * StoredItemSize(b)]

(***************************************************************************)
(* C9: the array read returns of a uint8 bitmap with 3 or 4 channels on a  *)
(* little-endian host has, at every (x, y), the stored channel 2 as its    *)
(* channel 0 and the stored channel 0 as its channel 2, channels 1 and 3   *)
(* as stored; on a big-endian host, and for any other bitmap, it is the    *)
(* store element for element.  The store is bottom-up, channels            *)
(* interleaved, as the decoder handed it out.                              *)
(***************************************************************************)
C9_ReadChannelOrder ==
  (op = "read" /\ ret # Null) =>
    LET C == IF Len(ret.shape) = 3 THEN ret.shape[3] ELSE 1
        swapped == ret.dtype = "uint8" /\ C \in {3, 4} /\ littleEndian
        src(c) == IF swapped /\ c \in {0, 2} THEN 2 - c ELSE c
        got(x, y, c) == IF Len(ret.shape) = 3 THEN ret.data[<<x, y, c>>]
                        ELSE ret.data[<<x, y>>]
    IN /\ ret.shape[1] = bitmap.width /\ ret.shape[2] = bitmap.height
       /\ \A x \in 0..bitmap.width - 1, y \in 0..bitmap.height - 1, c \in 0..C - 1 :
            got(x, y, c) = StoredAt(bitmap, bits0, x, y, src(c), C)

C9_Witness ==
  /\ op = "read" /\ pc = "returned" /\ littleEndian
  /\ bitmap.bpp = 32 /\ bitmap.fi_type = FIT_BITMAP
  /\ bitmap.width = 2 /\ bitmap.height = 2
  /\ result.data[<<1, 0, 0>>] = bits0[bitmap.pitch + 6]

ViewBuiltHere ==
  \/ pc = "afb" /\ get_type_and_shape(bitmap).ok
  \/ pc = "ab_Copy"

ViewHere ==
  IF pc = "afb"
    THEN LET r == get_type_and_shape(bitmap)
         IN _wrap_bitmap_bits_in_array(bitmap, r.shape, r.dtype)
    ELSE _wrap_bitmap_bits_in_array(bitmap, TheArray.shape, TheArray.dtype)

(***************************************************************************)
(* C10: in the view _wrap_bitmap_bits_in_array builds over a bitmap of     *)
(* height H >= 1 and pitch P, for elements of S bytes in C channels,       *)
(* element [x, y, c] lies P (H - 1 - y) + x C S + c S bytes from the base, *)
(* so row 0 starts at P (H - 1) and row H - 1 at 0; and when               *)
(* P >= width C S every element lies inside the P H bytes of the buffer.   *)
(***************************************************************************)
C10_StrideAndSpan ==
  ViewBuiltHere =>
    LET v == ViewHere
        W == v.shape[1]
        H == v.shape[2]
        C == IF Len(v.shape) = 3 THEN v.shape[3] ELSE 1
        S == v.itemsize
        P == bitmap.pitch
        at(x, y, c) == ElemAddr(v, IF Len(v.shape) = 3 THEN <<x, y, c>> ELSE <<x, y>>)
    IN /\ H >= 1
       /\ v.byte_size = P * H
       /\ at(0, 0, 0) = P * (H - 1)
       /\ at(0, H - 1, 0) = 0
       /\ \A x \in 0..W - 1, y \in 0..H - 1, c \in 0..C - 1 :
            /\ at(x, y, c) = P * (H - 1 - y) + x * C * S + c * S
            /\ P >= W * C * S => at(x, y, c) >= 0 /\ at(x, y, c) + S <= P * H

C10_Witness ==
  /\ ViewBuiltHere /\ pc = "afb"
  /\ ViewHere.shape = <<2, 2, 3>> /\ ViewHere.itemsize = 2
  /\ bitmap.pitch = 13
  /\ ElemAddr(ViewHere, <<1, 1, 2>>) = 10

\* a bitmap is built and _array_to_bitmap has returned it, in either writer
BuiltPage == Built \/ (op = "write_multipage" /\ pc = "wm_Append")

\* one channel of 8-bit unsigned elements: shape (w, h) or (w, h, 1)
SingleChannel8(a) ==
  a.dtype = "uint8" /\ Len(a.shape) \in {2, 3} /\ NChannels(a) = 1

\* the four bytes of a 32-bit palette entry, most significant first
Quad(e) ==
  <<e \div 16777216, (e \div 65536) % 256, (e \div 256) % 256, e % 256>>

PaletteFailed == error = <<"RuntimeError", "Could not get image palette">>

(***************************************************************************)
(* C11: every bitmap built from an array with a single channel of uint8    *)
(* elements, of shape (w, h) or (w, h, 1), on either endianness, has had   *)
(* 256 four-byte entries written to its palette buffer, entry v being      *)
(* v * 0x010101, the quad (0, v, v, v); no palette is written for an array *)
(* of another dtype or of 3 or 4 channels; and a null palette buffer is    *)
(* met only on a qualifying array, which then fails with RuntimeError.     *)
(***************************************************************************)
C11_GreyPalette ==
  /\ (BuiltPage /\ SingleChannel8(TheArray)) =>
       /\ palette # Null
       /\ Len(palette) = 256
       /\ \A v \in 0..255 :
            palette[v + 1] = v * 65793 /\ Quad(palette[v + 1]) = <<0, v, v, v>>
  /\ (BuiltPage /\ ~SingleChannel8(TheArray)) => palette = Null
  /\ (PaletteFailed /\ op = "write") => SingleChannel8(input) /\ pc # "returned"

InvalidShape ==
  <<"ValueError", "Only arrays with shape = (width, height) or (width, height, nchannels) are permitted">>
UnsupportedFormat == <<"ValueError", "Cannot write arrays of given type and shape.">>
UnknownFileType == <<"ValueError", "Cannot determine type for file">>

(***************************************************************************)
(* C12: write of an array whose rank is neither 2 nor 3 ends raising the   *)
(* shape error, and write of an array of rank 2 or 3 whose (dtype, channel *)
(* count) pair is not registered ends raising the format error, unless the *)
(* file type was not determined; in these three failures, and for every    *)
(* such array at every step, no decoder call was made: nothing allocated,  *)
(* nothing queried, nothing saved.                                         *)
(***************************************************************************)
C12_RejectedBeforeAllocation ==
  op = "write" =>
    /\ ~Registered(input) => calls = <<>> /\ bitmap = Null /\ pc # "returned"
    /\ (Done /\ Len(input.shape) \notin {2, 3}) =>
         error \in {InvalidShape, UnknownFileType}
    /\ (Done /\ Len(input.shape) \in {2, 3} /\ ~Registered(input)) =>
         error \in {UnsupportedFormat, UnknownFileType}
    /\ error \in {InvalidShape, UnsupportedFormat, UnknownFileType} =>
         pc = "raised" /\ calls = <<>>
    /\ error = InvalidShape => Len(input.shape) \notin {2, 3}
    /\ error = UnsupportedFormat => ~Registered(input)

\* a uint8 array of two channels is turned away with nothing allocated
C12_Witness ==
  /\ op = "write" /\ pc = "raised" /\ error = UnsupportedFormat
  /\ input.dtype = "uint8" /\ input.shape = <<2, 2, 2>>
  /\ calls = <<>>

\* the channel axis the registry gives a resolved bitmap: none, 3 or 4
Resolvable(b) ==
  /\ b.fi_type \in FIT_BITMAP..FIT_RGBAF
  /\ b.fi_type = FIT_BITMAP => b.bpp \in {8, 24, 32}

ExpectedDims(b) ==
  CASE b.fi_type = FIT_BITMAP /\ b.bpp = 8 -> <<>>
    [] b.fi_type = FIT_BITMAP /\ b.bpp = 24 -> <<3>>
    [] b.fi_type = FIT_BITMAP /\ b.bpp = 32 -> <<4>>
    [] b.fi_type \in {FIT_RGB16, FIT_RGBF} -> <<3>>
    [] b.fi_type \in {FIT_RGBA16, FIT_RGBAF} -> <<4>>
    [] OTHER -> <<>>

(***************************************************************************)
(* C13: for every bitmap read hands to _array_from_bitmap, whatever pixel  *)
(* type (0, 1..12, or above 12) and bits per pixel it reports,             *)
(* get_type_and_shape either returns the registered dtype with the shape   *)
(* [width, height] + channel dims (a generic bitmap of 8/24/32 bits giving *)
(* no axis / 3 / 4), or raises ValueError, the one error kind of every     *)
(* failing case, which is then the error of read; it returns nothing for   *)
(* an unregistered type or a generic bitmap of another depth.              *)
(***************************************************************************)
C13_ResolveTotalOneKind ==
  (op = "read" /\ bitmap # Null) =>
    LET r == get_type_and_shape(bitmap)
    IN /\ r.ok <=> Resolvable(bitmap)
       /\ r.ok => /\ r.dtype = FI_dtypes[bitmap.fi_type]
                  /\ r.shape = <<bitmap.width, bitmap.height>> \o ExpectedDims(bitmap)
       /\ ~r.ok => r.err[1] = "ValueError"
       /\ (~r.ok /\ pc \in {"pb_Unload", "raised"}) =>
            error = r.err /\ error[1] = "ValueError"

\* the tag of the decoder's universe that a metadata key names
TagOf(key) == CHOOSE t \in Tags : t.key = key[2]

RECURSIVE Flat(_)
Flat(fields) == IF fields = <<>> THEN <<>> ELSE Head(fields) \o Flat(Tail(fields))

\* an element of the registered layout of a type, holding the bytes of slice
IsElement(e, type, slice) ==
  /\ Flat(e) = slice
  /\ Len(slice) = ElemWidth(MD_dtypes[type])
  /\ CASE type \in {FIDT_RATIONAL, FIDT_SRATIONAL} ->
            Len(e) = 2 /\ Len(e[1]) = 4 /\ Len(e[2]) = 4
       [] type = FIDT_PALETTE -> Len(e) = 4 /\ \A f \in 1..4 : Len(e[f]) = 1
       [] OTHER -> Len(e) = 1

\* a non-ASCII value: byteLength / elementWidth elements, one of them bare
IsDecoded(v, t) ==
  LET w == ElemWidth(MD_dtypes[t.type])
      n == Len(t.bytes) \div w
      Slice(k) == SubSeq(t.bytes, (k - 1) * w + 1, k * w)
  IN /\ t.type \in DOMAIN MD_dtypes
     /\ Len(t.bytes) = n * w
     /\ IF n = 1
          THEN DOMAIN v = {"scalar"} /\ IsElement(v.scalar, t.type, Slice(1))
          ELSE /\ DOMAIN v = {"array"}
               /\ Len(v.array) = n
               /\ \A k \in 1..n : IsElement(v.array[k], t.type, Slice(k))

\* an ASCII value: the payload before its first terminator
IsFirstString(v, t) ==
  /\ DOMAIN v = {"text"}
  /\ \E n \in 0..Len(t.bytes) :
       /\ v.text = SubSeq(t.bytes, 1, n)
       /\ \A k \in 1..n : t.bytes[k] # 0
       /\ n < Len(t.bytes) => t.bytes[n + 1] = 0

\* an ASCII value: the whole payload but its last byte, the terminator
IsPayloadText(v, t) ==
  /\ DOMAIN v = {"text"}
  /\ t.bytes # <<>> /\ t.bytes[Len(t.bytes)] = 0
  /\ v.text = SubSeq(t.bytes, 1, Len(t.bytes) - 1)

(***************************************************************************)
(* C14: every value _read_metadata has decoded for a non-ASCII tag of a    *)
(* registered type has byteLength / elementWidth elements of the           *)
(* registered layout (rationals two 32-bit fields, palette four 8-bit      *)
(* fields), bare when there is exactly one and a sequence of that length   *)
(* otherwise; every value decoded for an ASCII tag is the payload text     *)
(* before its first terminator.                                            *)
(***************************************************************************)
C14_DecodedValues ==
  op \in MetadataOps =>
    \A key \in DOMAIN metadata :
      LET t == TagOf(key)
      IN IF t.type = FIDT_ASCII
           THEN IsFirstString(metadata[key], t)
           ELSE IsDecoded(metadata[key], t)

\* C14 as stated: the same, an ASCII value being the payload text without
\* the trailing terminator
C14_AsStated ==
  op \in MetadataOps =>
    \A key \in DOMAIN metadata :
      LET t == TagOf(key)
      IN IF t.type = FIDT_ASCII
           THEN IsPayloadText(metadata[key], t)
           ELSE IsDecoded(metadata[key], t)

\* a bare rational pair and a sequence of two shorts, returned together
C14_Witness ==
  /\ op = "read_metadata" /\ pc = "returned"
  /\ <<"EXIF_MAIN", "XResolution">> \in DOMAIN metadata
  /\ <<"EXIF_MAIN", "BitsPerSample">> \in DOMAIN metadata
  /\ metadata[<<"EXIF_MAIN", "XResolution">>] =
       [scalar |-> <<<<72, 0, 0, 0>>, <<1, 0, 0, 0>>>>]
  /\ metadata[<<"EXIF_MAIN", "BitsPerSample">>] =
       [array |-> <<<<(<<8, 0>>)>>, <<(<<8, 0>>)>>>>]

\* the error of an operation that failed with the decoder's message
DecoderFault(message) == <<"RuntimeError", "FreeImage error: " \o message>>

\* what an operation acquired has been released
Released ==
  /\ Made("FreeImage_Load", 1) => Count("FreeImage_Unload", 1) = 1
  /\ Made("FreeImage_AllocateT", 1) /\ op = "write" => Count("FreeImage_Unload", 1) = 1
  /\ Made("FreeImage_OpenMultiBitmap", 1) => Count("FreeImage_CloseMultiBitmap", 1) = 1

(***************************************************************************)
(* C15: error_handler is installed once, and whenever the decoder has      *)
(* called it, it was still registered and referenced, a live callback; an  *)
(* operation during which the decoder called it never ends the process and *)
(* never returns: it raises RuntimeError carrying the decoder's message,   *)
(* with what it acquired released.                                         *)
(***************************************************************************)
C15_FaultsSurface ==
  /\ callback.installs = 1
  /\ faults # <<>> => callback.registered /\ callback.referenced
  /\ pc # "crashed"
  /\ (faults # <<>> /\ Done) =>
       /\ pc = "raised"
       /\ error = DecoderFault(faults[1])
       /\ Released

(***************************************************************************)
(* C16: in read and read_multipage the pixel memory of the bitmap in hand  *)
(* holds at every step, up to and after the unload or the unlock, what it  *)
(* held when the decoder handed the bitmap out, uint8 bitmaps of 3 or 4    *)
(* channels on a little-endian host included.                              *)
(***************************************************************************)
C16_DecoderMemoryUntouched ==
  op \in {"read", "read_multipage"} => bits = bits0

IncompatibleFormat ==
  <<"TypeError", "Cannot save image of this format to this file type">>
SaveFailed == <<"RuntimeError", "Could not save image properly.">>

Queries ==
  Named("FreeImage_FIFSupportsExportBPP") \cup Named("FreeImage_FIFSupportsExportType")

(***************************************************************************)
(* C17: write calls FreeImage_Save at most once, and only right after the  *)
(* one capability query, which was by the bitmap's bits per pixel when     *)
(* fi_type is FIT_BITMAP and by fi_type otherwise, and was answered true;  *)
(* a query answered false ends in TypeError with no save, a failed save in *)
(* RuntimeError; and in each of these outcomes, as after a save that       *)
(* succeeded, the handle is unloaded once, as the last decoder call.       *)
(***************************************************************************)
C17_SaveAfterQuery ==
  op = "write" =>
    /\ Cardinality(Named("FreeImage_Save")) <= 1
    /\ Cardinality(Queries) <= 1
    /\ \A k \in Named("FreeImage_FIFSupportsExportBPP") :
         fi_type = FIT_BITMAP /\ calls[k][2] = bitmap.bpp
    /\ \A k \in Named("FreeImage_FIFSupportsExportType") :
         /\ fi_type # FIT_BITMAP /\ calls[k][2] = fi_type
         /\ fi_type = FI_fi_types[<<input.dtype, NChannels(input)>>]
    /\ \A k \in Named("FreeImage_Save") :
         /\ k - 1 \in Queries
         /\ calls[k][2] = bitmap.id
         /\ error \in {NoError, SaveFailed}
    /\ error = IncompatibleFormat =>
         /\ Queries # {} /\ Named("FreeImage_Save") = {}
         /\ pc \in {"w_Unload", "raised"}
    /\ error = SaveFailed =>
         Named("FreeImage_Save") # {} /\ pc \in {"w_Unload", "raised"}
    /\ (Done /\ Queries # {} /\ Named("FreeImage_Save") = {}) =>
         error = IncompatibleFormat
    /\ (Done /\ Queries # {}) =>
         /\ LastIs("FreeImage_Unload")
         /\ Count("FreeImage_Unload", bitmap.id) = 1
         /\ calls[Len(calls)][2] = bitmap.id
    /\ pc = "returned" =>
         /\ Len(calls) = 4 /\ error = NoError
         /\ calls[1] = Call("FreeImage_AllocateT", 1)
         /\ 2 \in Queries
         /\ calls[3] = Call("FreeImage_Save", 1)
         /\ calls[4] = Call("FreeImage_Unload", 1)

\* an RGBA float image refused by the file type: queried by type, not saved
C17_Witness ==
  /\ op = "write" /\ pc = "raised" /\ error = IncompatibleFormat
  /\ input.dtype = "float32" /\ input.shape = <<2, 1, 4>>
  /\ calls = <<Call("FreeImage_AllocateT", 1),
               Call("FreeImage_FIFSupportsExportType", FIT_RGBAF),
               Call("FreeImage_Unload", 1)>>

=============================================================================
